---- MODULE Spec2Model ----
(***************************************************************************)
(* Model of scripts/generate_room_ir_data.py: the batch run of main() over *)
(* an input directory (listing, duplicate check, external decoding with    *)
(* its temporary file, WAV parsing, peak normalisation, preview, emission  *)
(* of the two output files) and the pure functions it is built from.       *)
(*                                                                         *)
(* Numbers.  A Python float is modelled as a dyadic rational m * 2^e, the  *)
(* record [m |-> m, e |-> e] with m odd (or m = 0, e = 0).  Operations     *)
(* that are exact in binary64 for the values the program handles           *)
(* (conversion of a 16-bit integer or of a binary32 value, division by     *)
(* 32768 = 2^15, multiplication by 0.5, abs, min, max, comparison) are     *)
(* exact here.  The operations that round in the program (target / peak,   *)
(* s * scale, l + r) round to nearest, ties to even, as binary64 does, but *)
(* to Precision significant bits instead of 53.  No exponent range is      *)
(* modelled: with peak >= 1e-12 and |s| <= peak the program neither        *)
(* overflows nor underflows.                                               *)
(***************************************************************************)
EXTENDS Integers, Sequences, FiniteSets, TLC

\* Significant bits of the model's rounding operations (binary64: 53).
Precision == 8

----------------------------------------------------------------------------
\* Dyadic floats

Pow2(k) == 2 ^ k

AbsInt(n) == IF n < 0 THEN -n ELSE n

SignInt(n) == IF n < 0 THEN -1 ELSE 1

MaxInt(a, b) == IF a < b THEN b ELSE a

MinInt(a, b) == IF a < b THEN a ELSE b

RECURSIVE BitLen(_)
BitLen(n) == IF n = 0 THEN 0 ELSE 1 + BitLen(n \div 2)

RECURSIVE Canon(_, _)
Canon(m, e) ==
    IF m = 0 THEN [m |-> 0, e |-> 0]
    ELSE IF m % 2 = 0 THEN Canon(m \div 2, e + 1)
    ELSE [m |-> m, e |-> e]

FromInt(n) == Canon(n, 0)

FZero == FromInt(0)

FOne == FromInt(1)

FNeg(a) == [m |-> -a.m, e |-> a.e]

FAbs(a) == [m |-> AbsInt(a.m), e |-> a.e]

\* The value lies in [2^(Top-1), 2^Top) in magnitude.
Top(a) == BitLen(AbsInt(a.m)) + a.e

MagLess(a, b) ==
    IF a.m = 0 THEN b.m # 0
    ELSE IF b.m = 0 THEN FALSE
    ELSE IF Top(a) # Top(b) THEN Top(a) < Top(b)
    ELSE LET lo == MinInt(a.e, b.e)
         IN  AbsInt(a.m) * Pow2(a.e - lo) < AbsInt(b.m) * Pow2(b.e - lo)

FLess(a, b) ==
    IF a.m < 0 /\ b.m >= 0 THEN TRUE
    ELSE IF a.m >= 0 /\ b.m < 0 THEN FALSE
    ELSE IF a.m >= 0 THEN MagLess(a, b)
    ELSE MagLess(b, a)

\* Python's max(a, b) and min(a, b) of two floats (the first wins a tie).
FMax(a, b) == IF FLess(a, b) THEN b ELSE a

FMin(a, b) == IF FLess(b, a) THEN b ELSE a

\* sign * mag * 2^e rounded to Precision bits, ties to even; sticky says
\* that a non-zero part below mag's last bit was dropped.
RoundNearestEven(sign, mag, e, sticky) ==
    LET k == BitLen(mag) - Precision
    IN  IF k <= 0 THEN Canon(sign * mag, e)
        ELSE LET q    == mag \div Pow2(k)
                 r    == mag % Pow2(k)
                 half == Pow2(k - 1)
                 up   == \/ r > half
                         \/ r = half /\ (sticky \/ q % 2 = 1)
             IN  Canon(sign * (IF up THEN q + 1 ELSE q), e + k)

\* a * b, rounded.
FMul(a, b) ==
    RoundNearestEven(SignInt(a.m) * SignInt(b.m),
                     AbsInt(a.m) * AbsInt(b.m), a.e + b.e, FALSE)

\* a / b (b # 0), rounded: the quotient is developed to Precision + 2 bits.
FDiv(a, b) ==
    LET na  == AbsInt(a.m)
        nb  == AbsInt(b.m)
        s   == MaxInt(0, Precision + 2 + BitLen(nb) - BitLen(na))
        num == na * Pow2(s)
    IN  IF na = 0 THEN FZero
        ELSE RoundNearestEven(SignInt(a.m) * SignInt(b.m), num \div nb,
                              a.e - b.e - s, num % nb # 0)

\* a + b, rounded.  An addend below a quarter of the other's last place
\* leaves it unchanged.
FAdd(a, b) ==
    LET hi == IF MagLess(a, b) THEN b ELSE a
        lo == IF MagLess(a, b) THEN a ELSE b
        el == MinInt(a.e, b.e)
        s  == a.m * Pow2(a.e - el) + b.m * Pow2(b.e - el)
    IN  IF lo.m = 0 THEN hi
        ELSE IF Top(hi) - Top(lo) > Precision + 2
                /\ BitLen(AbsInt(hi.m)) <= Precision THEN hi
        ELSE RoundNearestEven(SignInt(s), AbsInt(s), el, FALSE)

\* Multiplication and division by a power of two are exact.
FScale2(a, k) == Canon(a.m, a.e + k)

\* max(-1.0, min(1.0, v))
Clamp(v) == FMax(FNeg(FOne), FMin(FOne, v))

----------------------------------------------------------------------------
\* Strings are sequences of one-character strings.

\* The characters of the model, in code point order.
Ascii ==
    << " ", "-", ".", "0", "1", "2", "3", "4", "5", "6", "7", "8", "9",
       "A", "B", "C", "D", "E", "F", "G", "H", "I", "J", "K", "L", "M",
       "N", "O", "P", "Q", "R", "S", "T", "U", "V", "W", "X", "Y", "Z",
       "\\", "_",
       "a", "b", "c", "d", "e", "f", "g", "h", "i", "j", "k", "l", "m",
       "n", "o", "p", "q", "r", "s", "t", "u", "v", "w", "x", "y", "z" >>

Ord(c) == CHOOSE i \in 1..Len(Ascii) : Ascii[i] = c

IsUpper(c) == Ord("A") <= Ord(c) /\ Ord(c) <= Ord("Z")

IsLower(c) == Ord("a") <= Ord(c) /\ Ord(c) <= Ord("z")

IsDigit(c) == Ord("0") <= Ord(c) /\ Ord(c) <= Ord("9")

\* str.lower() and str.upper() of one character
ToLower(c) == IF IsUpper(c) THEN Ascii[Ord(c) - Ord("A") + Ord("a")] ELSE c

ToUpper(c) == IF IsLower(c) THEN Ascii[Ord(c) - Ord("a") + Ord("A")] ELSE c

LowerStr(s) == [i \in 1..Len(s) |-> ToLower(s[i])]

\* Code point order of two strings, as sorted() compares two paths of one
\* directory.
RECURSIVE StrLess(_, _)
StrLess(a, b) ==
    IF b = <<>> THEN FALSE
    ELSE IF a = <<>> THEN TRUE
    ELSE IF Head(a) # Head(b) THEN Ord(Head(a)) < Ord(Head(b))
    ELSE StrLess(Tail(a), Tail(b))

\* str.rfind("."), 1-based; 0 when there is no dot
LastDot(name) ==
    LET dots == {i \in 1..Len(name) : name[i] = "."}
    IN  IF dots = {} THEN 0 ELSE CHOOSE i \in dots : \A j \in dots : j <= i

\* PurePath.suffix: from the last dot, unless the dot leads or ends the name
Suffix(name) ==
    LET i == LastDot(name)
    IN  IF 1 < i /\ i < Len(name) THEN SubSeq(name, i, Len(name)) ELSE <<>>

\* PurePath.stem
Stem(name) ==
    LET i == LastDot(name)
    IN  IF 1 < i /\ i < Len(name) THEN SubSeq(name, 1, i - 1) ELSE name

ExtWav == << ".", "w", "a", "v" >>

ExtWv == << ".", "w", "v" >>

\* str.split(" ") with the empty words dropped
RECURSIVE Words(_, _)
Words(s, cur) ==
    IF s = <<>> THEN (IF cur = <<>> THEN <<>> ELSE << cur >>)
    ELSE IF Head(s) = " "
         THEN (IF cur = <<>> THEN <<>> ELSE << cur >>) \o Words(Tail(s), <<>>)
    ELSE Words(Tail(s), Append(cur, Head(s)))

RECURSIVE JoinWords(_)
JoinWords(ws) ==
    IF ws = <<>> THEN <<>>
    ELSE IF Len(ws) = 1 THEN Head(ws)
    ELSE Head(ws) \o << " " >> \o JoinWords(Tail(ws))

\* _title_from_id: runs of "_", "\" and "-" become a space, every word is
\* capitalised.  strip() only removes what split(" ") drops anyway.
_title_from_id(stem) ==
    LET spaced == [i \in 1..Len(stem) |->
                     IF stem[i] \in {"_", "\\", "-"} THEN " " ELSE stem[i]]
        ws     == Words(spaced, <<>>)
        caps   == [k \in 1..Len(ws) |->
                     << ToUpper(Head(ws[k])) >> \o Tail(ws[k])]
    IN  JoinWords(caps)

\* re.sub(r"[^A-Za-z0-9_]", "_", ir_id)
Sanitize(ir_id) ==
    [i \in 1..Len(ir_id) |->
        IF IsUpper(ir_id[i]) \/ IsLower(ir_id[i]) \/ IsDigit(ir_id[i])
           \/ ir_id[i] = "_"
        THEN ir_id[i] ELSE "_"]

\* f"kIr_{base}_samplesL", f"kIr_{base}_samplesR", f"kIr_{base}_preview"
ArrayName(base, part) == << "k", "I", "r", "_" >> \o base \o part

PartL == << "_", "s", "a", "m", "p", "l", "e", "s", "L" >>

PartR == << "_", "s", "a", "m", "p", "l", "e", "s", "R" >>

PartPreview == << "_", "p", "r", "e", "v", "i", "e", "w" >>

----------------------------------------------------------------------------
\* Optional[List[float]]

None == [some |-> FALSE, val |-> <<>>]

Some(s) == [some |-> TRUE, val |-> s]

----------------------------------------------------------------------------
\* _read_wav.  A WAV file is the record
\*   [opens, comptype, ch, sr, sampwidth, words, tail]:
\* opens says that wave.open accepts the header, words are the whole sample
\* words the data chunk holds (16-bit integers for sampwidth 2, binary32
\* values for sampwidth 4) and tail the bytes left over after the last
\* whole word (a truncated data chunk).

\* The divisor of line 51.
PcmDivisor == 32768

\* Faulty variant: the divisor is the largest positive sample value.
Pcm16ToFloatMaxPositive(v) == FDiv(FromInt(v), FromInt(PcmDivisor - 1))

\* v / 32768.0: the divisor is a power of two, the quotient is exact.
Pcm16ToFloat(v) == FScale2(FromInt(v), 1 - BitLen(PcmDivisor))

\* samples[0::2] and samples[1::2]
EvenSlice(s) == [i \in 1..((Len(s) + 1) \div 2) |-> s[2 * i - 1]]

OddSlice(s) == [i \in 1..(Len(s) \div 2) |-> s[2 * i]]

Raised(kind) ==
    [err |-> kind, sr |-> 0, ch |-> 0, left |-> <<>>, right |-> None]

DecodeWords(w) ==
    IF w.sampwidth = 2
    THEN [i \in 1..Len(w.words) |-> Clamp(Pcm16ToFloat(w.words[i]))]
    ELSE [i \in 1..Len(w.words) |-> Clamp(w.words[i])]

_read_wav(w) ==
    IF ~w.opens THEN Raised("wave.Error")
    ELSE IF w.comptype # "NONE" THEN Raised("UnsupportedFormat")
    ELSE IF w.ch \notin {1, 2} THEN Raised("UnsupportedFormat")
    ELSE IF w.sampwidth \in {2, 4} /\ w.tail # 0 THEN Raised("struct.error")
    ELSE IF w.sampwidth \notin {2, 4} THEN Raised("UnsupportedFormat")
    ELSE LET samples == DecodeWords(w)
         IN  IF w.ch = 1
             THEN [err |-> "none", sr |-> w.sr, ch |-> 1,
                   left |-> samples, right |-> None]
             ELSE [err |-> "none", sr |-> w.sr, ch |-> 2,
                   left |-> EvenSlice(samples),
                   right |-> Some(OddSlice(samples))]

----------------------------------------------------------------------------
\* _normalize_peak

\* The default target 0.95: the float nearest to 19/20.
Target == FDiv(FromInt(19), FromInt(20))

\* The threshold 1e-12, which lies between 2^-40 and 2^-39, to 29 bits.
PeakFloor == [m |-> 295147905, e |-> -68]

RECURSIVE PeakOf(_, _)
PeakOf(peak, samples) ==
    IF samples = <<>> THEN peak
    ELSE PeakOf(FMax(peak, FAbs(Head(samples))), Tail(samples))

\* Faulty variant: the right channel is left out of the peak.
GlobalPeakLeftOnly(samples_l, samples_r) == PeakOf(FZero, samples_l)

\* The peak over the channels given.
GlobalPeak(samples_l, samples_r) ==
    IF samples_r.some
    THEN PeakOf(PeakOf(FZero, samples_l), samples_r.val)
    ELSE PeakOf(FZero, samples_l)

ScaleAll(samples, scale) ==
    [i \in 1..Len(samples) |-> FMul(samples[i], scale)]

_normalize_peak(samples_l, samples_r) ==
    LET peak  == GlobalPeak(samples_l, samples_r)
        scale == FDiv(Target, peak)
    IN  IF FLess(peak, PeakFloor)
        THEN [l |-> samples_l, r |-> samples_r]
        ELSE [l |-> ScaleAll(samples_l, scale),
              r |-> IF samples_r.some
                    THEN Some(ScaleAll(samples_r.val, scale))
                    ELSE None]

----------------------------------------------------------------------------
\* _build_preview

\* round(num / den) for num >= 0 and den > 0: Python rounds a tie to the
\* even neighbour.  For inputs shorter than 26 samples the binary64 value
\* of i * step rounds to the same integer as the exact quotient.
RoundHalfEven(num, den) ==
    LET q == num \div den
        r == 2 * (num % den)
    IN  IF r < den THEN q
        ELSE IF r > den THEN q + 1
        ELSE IF q % 2 = 0 THEN q ELSE q + 1

\* The 0-based index picked for output i (0-based).
PreviewIndex(i, n, max_samples) ==
    MaxInt(0, MinInt(n - 1, RoundHalfEven(i * (n - 1), max_samples - 1)))

\* Faulty variant: a short input is resampled instead of copied.
_build_preview_no_copy(samples, max_samples) ==
    IF max_samples <= 0 \/ samples = <<>> THEN [err |-> "none", out |-> <<>>]
    ELSE IF max_samples - 1 = 0 THEN [err |-> "ZeroDivisionError", out |-> <<>>]
    ELSE [err |-> "none",
          out |-> [k \in 1..max_samples |->
                     samples[PreviewIndex(k - 1, Len(samples), max_samples) + 1]]]

_build_preview(samples, max_samples) ==
    IF max_samples <= 0 \/ samples = <<>> THEN [err |-> "none", out |-> <<>>]
    ELSE IF Len(samples) <= max_samples THEN [err |-> "none", out |-> samples]
    ELSE IF max_samples - 1 = 0 THEN [err |-> "ZeroDivisionError", out |-> <<>>]
    ELSE [err |-> "none",
          out |-> [k \in 1..max_samples |->
                     samples[PreviewIndex(k - 1, Len(samples), max_samples) + 1]]]

----------------------------------------------------------------------------
\* The run of main()

\* Bounds of the model
MaxFiles == 2

MaxPreview == 2

VARIABLES
    dir,            \* the input directory: file name -> index into Entries
    on_path,        \* the decoding tools shutil.which finds
    preview_arg,    \* args.preview
    pc,             \* where main() is
    inputs,         \* the sorted list of input paths
    pos,            \* the 1-based position of the for loop in inputs
    seen_ids, items,
    ir_id, display, decoded, should_delete,
    sr, ch, samples_l, samples_r,
    tmp_files,      \* the temporary files that exist: id -> entry written (0: empty)
    tmp_count,      \* temporary files created so far
    invoked,        \* the subprocess.run calls made: <<path, tool, outcome>>
    err,            \* the exception that ended the run
    out_dirs,       \* the parent directories of the outputs were made
    out_h, out_cpp, \* the two output files
    arg, ret        \* argument and result of a pure function applied on its own

run_vars ==
    << dir, on_path, preview_arg, pc, inputs, pos, seen_ids, items, ir_id,
       display, decoded, should_delete, sr, ch, samples_l, samples_r,
       tmp_files, tmp_count, invoked, err, out_dirs, out_h, out_cpp >>

vars == << run_vars, arg, ret >>

Pcm16(ch_, words_) ==
    [is_file |-> TRUE, opens |-> TRUE, comptype |-> "NONE", ch |-> ch_,
     sr |-> 48000, sampwidth |-> 2, words |-> words_, tail |-> 0]

\* The directory entries of the model.
Entries ==
    << \* 1: mono 16-bit
       Pcm16(1, << 16384, -16384, 0, 32767 >>),
       \* 2: stereo 16-bit, three frames
       Pcm16(2, << 13, -8192, 32767, 1, -32768, 100 >>),
       \* 3: three channels
       Pcm16(3, << 1, 2, 3 >>),
       \* 4: not a regular file
       [Pcm16(1, << >>) EXCEPT !.is_file = FALSE],
       \* 5: stereo 16-bit, data chunk cut after three words
       Pcm16(2, << 100, -100, 200 >>),
       \* 6: 24-bit
       [Pcm16(1, << 1, 2 >>) EXCEPT !.sampwidth = 3],
       \* 7: mono binary32 with a value beyond 1.0
       [Pcm16(1, << Canon(3, -1), Canon(-1, -2), Canon(1, -40) >>)
           EXCEPT !.sampwidth = 4] >>

FileNames ==
    { << "a", "-", "b", ".", "w", "a", "v" >>,
      << "a", "_", "b", ".", "W", "A", "V" >>,
      << "x", ".", "w", "a", "v" >>,
      << "x", ".", "w", "v" >>,
      << "n", ".", "t", "x", "t" >> }

\* What a file of the directory may hold.  The entry of a .wv file stands
\* for the WAV file its decoder writes: whole frames of 16-bit samples.
EntriesFor(name) ==
    IF LowerStr(Suffix(name)) = ExtWav THEN 1..Len(Entries)
    ELSE IF LowerStr(Suffix(name)) = ExtWv THEN 1..4
    ELSE {1, 4}

Directories ==
    UNION { { f \in [S -> 1..Len(Entries)] : \A n \in S : f[n] \in EntriesFor(n) }
            : S \in { T \in SUBSET FileNames : Cardinality(T) <= MaxFiles } }

Tools == {"ffmpeg", "wvunpack"}

\* r.stderr of a tool that fails
Stderr(tool) == << "stderr of", tool >>

NoError == [kind |-> "none", path |-> <<>>, detail |-> <<>>]

Absent == [written |-> FALSE]

NotCalled == [called |-> FALSE]

NoPath == [tmp |-> FALSE, name |-> <<>>, id |-> 0]

RunInit ==
    /\ dir \in Directories
    /\ on_path \in SUBSET Tools
    /\ preview_arg \in 0..MaxPreview
    /\ pc = "start"
    /\ inputs = <<>>
    /\ pos = 0
    /\ seen_ids = {}
    /\ items = <<>>
    /\ ir_id = <<>>
    /\ display = <<>>
    /\ decoded = NoPath
    /\ should_delete = FALSE
    /\ sr = 0
    /\ ch = 0
    /\ samples_l = <<>>
    /\ samples_r = None
    /\ tmp_files = << >>
    /\ tmp_count = 0
    /\ invoked = <<>>
    /\ err = NoError
    /\ out_dirs = FALSE
    /\ out_h = Absent
    /\ out_cpp = Absent

Init == RunInit /\ arg = <<>> /\ ret = NotCalled

----------------------------------------------------------------------------
\* Actions of the run

\* An uncaught exception (or SystemExit) ends the process.
Fail(kind, path, detail) ==
    /\ pc' = "failed"
    /\ err' = [kind |-> kind, path |-> path, detail |-> detail]

\* sorted(): the paths of one directory in code point order
RECURSIVE SortedSeq(_)
SortedSeq(S) ==
    IF S = {} THEN <<>>
    ELSE LET least == CHOOSE a \in S : \A b \in S \ {a} : StrLess(a, b)
         IN  << least >> \o SortedSeq(S \ {least})

\* p.is_file() and p.suffix.lower() in (".wav", ".wv")
IsInput(name) ==
    /\ Entries[dir[name]].is_file
    /\ LowerStr(Suffix(name)) \in {ExtWav, ExtWv}

\* Faulty variant: an empty input list is not refused.
NoInputsIgnored(ins) == FALSE

\* if not inputs
NoInputs(ins) == ins = <<>>

\* main, lines 175-179
ListInputs ==
    /\ pc = "start"
    /\ LET found == SortedSeq({n \in DOMAIN dir : IsInput(n)})
       IN  /\ inputs' = found
           /\ IF NoInputs(found)
              THEN Fail("NoInputFiles", <<>>, <<>>) /\ pos' = pos
              ELSE pc' = "loop" /\ pos' = 1 /\ err' = err
    /\ UNCHANGED << dir, on_path, preview_arg, seen_ids, items, ir_id, display,
                    decoded, should_delete, sr, ch, samples_l, samples_r,
                    tmp_files, tmp_count, invoked, out_dirs,
                    out_h, out_cpp, arg, ret >>

\* Faulty variant: identifiers already seen are not looked up.
IsDuplicateNever(id, seen) == FALSE

\* if ir_id in seen_ids
IsDuplicate(id, seen) == id \in seen

\* main, lines 183-188: the head of the loop body
BeginFile ==
    /\ pc = "loop"
    /\ pos <= Len(inputs)
    /\ LET src == inputs[pos]
           id  == Stem(src)
       IN  /\ ir_id' = id
           /\ IF IsDuplicate(id, seen_ids)
              THEN /\ Fail("DuplicateIdentifier", src, id)
                   /\ UNCHANGED << seen_ids, display >>
              ELSE /\ seen_ids' = seen_ids \cup {id}
                   /\ display' = _title_from_id(id)
                   /\ pc' = "decode"
                   /\ err' = err
    /\ UNCHANGED << dir, on_path, preview_arg, inputs, pos, items, decoded,
                    should_delete, sr, ch, samples_l, samples_r, tmp_files,
                    tmp_count, invoked, out_dirs,
                    out_h, out_cpp, arg, ret >>

SrcPath(name) == [tmp |-> FALSE, name |-> name, id |-> 0]

TmpPath(id) == [tmp |-> TRUE, name |-> <<>>, id |-> id]

\* Path.unlink(missing_ok=True) of a temporary file
Unlink(files, id) == [k \in DOMAIN files \ {id} |-> files[k]]

\* _decode_to_wav_if_needed, lines 73-81: a .wav is read as it is, for a .wv
\* an empty temporary file is created
EnterDecode ==
    /\ pc = "decode"
    /\ LET src == inputs[pos]
           suffix == LowerStr(Suffix(src))
       IN  IF suffix = ExtWav
           THEN /\ decoded' = SrcPath(src)
                /\ should_delete' = FALSE
                /\ pc' = "read"
                /\ UNCHANGED << err, tmp_files, tmp_count >>
           ELSE IF suffix # ExtWv
           THEN /\ Fail("UnsupportedFormat", src, suffix)
                /\ UNCHANGED << decoded, should_delete, tmp_files, tmp_count >>
           ELSE /\ tmp_count' = tmp_count + 1
                /\ tmp_files' = [k \in DOMAIN tmp_files \cup {tmp_count + 1} |->
                                   IF k = tmp_count + 1 THEN 0 ELSE tmp_files[k]]
                /\ pc' = "which"
                /\ UNCHANGED << err, decoded, should_delete >>
    /\ UNCHANGED << dir, on_path, preview_arg, inputs, pos, seen_ids, items,
                    ir_id, display, sr, ch, samples_l, samples_r, invoked,
                    out_dirs,
                    out_h, out_cpp, arg, ret >>

\* What subprocess.run of a decoder can do: return status 0 with the WAV
\* written, return a non-zero status, or raise (the program could not be
\* started, its stderr is not valid text).
ToolOutcomes == {"ok", "nonzero", "raised"}

\* subprocess.run of a decoder on the temporary file, and what follows it
\* (lines 85-90 and 94-99)
RunTool(tool, outcome) ==
    LET src == inputs[pos]
        tmp_path == tmp_count
    IN  /\ invoked' = Append(invoked, << src, tool, outcome >>)
        /\ IF outcome = "ok"
           THEN /\ tmp_files' = [tmp_files EXCEPT ![tmp_path] = dir[src]]
                /\ decoded' = TmpPath(tmp_path)
                /\ should_delete' = TRUE
                /\ pc' = "read"
                /\ err' = err
           ELSE IF outcome = "nonzero"
           THEN /\ tmp_files' = Unlink(tmp_files, tmp_path)
                /\ Fail("ExternalDecodeFailed", src, Stderr(tool))
                /\ UNCHANGED << decoded, should_delete >>
           ELSE /\ Fail("OSError", src, <<>>)
                /\ UNCHANGED << tmp_files, decoded, should_delete >>

\* if ffmpeg:
FfmpegChosen == "ffmpeg" \in on_path

\* Faulty variant: wvunpack is tried whether or not ffmpeg was located.
WvunpackWhenever == "wvunpack" \in on_path

\* reached only without ffmpeg; if wvunpack:
WvunpackChosen == "ffmpeg" \notin on_path /\ "wvunpack" \in on_path

\* lines 83-90
RunFfmpeg ==
    /\ pc = "which"
    /\ FfmpegChosen
    /\ \E outcome \in ToolOutcomes : RunTool("ffmpeg", outcome)
    /\ UNCHANGED << dir, on_path, preview_arg, inputs, pos, seen_ids, items,
                    ir_id, display, sr, ch, samples_l, samples_r, tmp_count,
                    out_dirs,
                    out_h, out_cpp, arg, ret >>

\* lines 92-99
RunWvunpack ==
    /\ pc = "which"
    /\ WvunpackChosen
    /\ \E outcome \in ToolOutcomes : RunTool("wvunpack", outcome)
    /\ UNCHANGED << dir, on_path, preview_arg, inputs, pos, seen_ids, items,
                    ir_id, display, sr, ch, samples_l, samples_r, tmp_count,
                    out_dirs,
                    out_h, out_cpp, arg, ret >>

\* lines 101-102
ToolUnavailable ==
    /\ pc = "which"
    /\ ~FfmpegChosen
    /\ ~WvunpackChosen
    /\ tmp_files' = Unlink(tmp_files, tmp_count)
    /\ Fail("DecodeToolUnavailable", inputs[pos], <<>>)
    /\ UNCHANGED << dir, on_path, preview_arg, inputs, pos, seen_ids, items,
                    ir_id, display, decoded, should_delete, sr, ch, samples_l,
                    samples_r, tmp_count, invoked, out_dirs,
                    out_h, out_cpp, arg, ret >>

\* The file a path names
FileAt(path) ==
    IF path.tmp THEN Entries[tmp_files[path.id]] ELSE Entries[dir[path.name]]

\* main, lines 190-194: parse the decoded file; the finally clause removes
\* the temporary file whether or not the parse raised
ReadDecoded ==
    /\ pc = "read"
    /\ LET r == _read_wav(FileAt(decoded))
       IN  /\ tmp_files' = IF should_delete THEN Unlink(tmp_files, decoded.id)
                           ELSE tmp_files
           /\ IF r.err # "none"
              THEN /\ Fail(r.err, inputs[pos], <<>>)
                   /\ UNCHANGED << sr, ch, samples_l, samples_r >>
              ELSE /\ sr' = r.sr
                   /\ ch' = r.ch
                   /\ samples_l' = r.left
                   /\ samples_r' = r.right
                   /\ pc' = "build"
                   /\ err' = err
    /\ UNCHANGED << dir, on_path, preview_arg, inputs, pos, seen_ids, items,
                    ir_id, display, decoded, should_delete, tmp_count, invoked,
                    out_dirs,
                    out_h, out_cpp, arg, ret >>

\* Faulty variant: only a missing right channel is refused.
ChannelMismatchNoneOnly(ch_, l, r) == ch_ = 2 /\ ~r.some

\* if ch == 2 and (samples_r is None or len(samples_l) != len(samples_r))
ChannelMismatch(ch_, l, r) == ch_ = 2 /\ (~r.some \/ Len(l) # Len(r.val))

\* [(l + r) * 0.5 for (l, r) in zip(samples_l, samples_r)]
ChannelAverage(l, r) ==
    [k \in 1..MinInt(Len(l), Len(r)) |-> FScale2(FAdd(l[k], r[k]), -1)]

\* main, lines 195-209: the rest of the loop body
BuildItem ==
    /\ pc = "build"
    /\ IF ChannelMismatch(ch, samples_l, samples_r)
       THEN /\ Fail("ChannelLengthMismatch", inputs[pos], <<>>)
            /\ UNCHANGED << samples_l, samples_r, items, pos >>
       ELSE LET norm == _normalize_peak(samples_l, samples_r)
                preview_src == IF ch = 1 \/ ~norm.r.some THEN norm.l
                               ELSE ChannelAverage(norm.l, norm.r.val)
                pv == _build_preview(preview_src, preview_arg)
            IN  /\ samples_l' = norm.l
                /\ samples_r' = norm.r
                /\ IF pv.err # "none"
                   THEN /\ Fail(pv.err, inputs[pos], <<>>)
                        /\ UNCHANGED << items, pos >>
                   ELSE /\ items' = Append(items,
                                       [ir_id       |-> ir_id,
                                        display     |-> display,
                                        sample_rate |-> sr,
                                        channels    |-> ch,
                                        samples_l   |-> norm.l,
                                        samples_r   |-> norm.r,
                                        preview     |-> pv.out])
                        /\ pos' = pos + 1
                        /\ pc' = "loop"
                        /\ err' = err
    /\ UNCHANGED << dir, on_path, preview_arg, inputs, seen_ids, ir_id,
                    display, decoded, should_delete, sr, ch, tmp_files,
                    tmp_count, invoked, out_dirs,
                    out_h, out_cpp, arg, ret >>

\* The static arrays of one item (lines 246-253).  An array is its name and
\* its values; the text of the float literals is not modelled.
ItemArrays(it) ==
    LET base == Sanitize(it.ir_id)
    IN  << [name |-> ArrayName(base, PartL), values |-> it.samples_l] >>
        \o (IF it.channels = 2 /\ it.samples_r.some
            THEN << [name |-> ArrayName(base, PartR),
                     values |-> it.samples_r.val] >>
            ELSE <<>>)
        \o << [name |-> ArrayName(base, PartPreview), values |-> it.preview] >>

RECURSIVE AllArrays(_)
AllArrays(its) ==
    IF its = <<>> THEN <<>> ELSE ItemArrays(Head(its)) \o AllArrays(Tail(its))

\* The record of one item in kItems (lines 257-271); the two counts are
\* sizeof the array named.
ItemRow(it) ==
    LET base == Sanitize(it.ir_id)
    IN  [id          |-> it.ir_id,
         displayName |-> it.display,
         sampleRate  |-> it.sample_rate,
         channels    |-> it.channels,
         samplesL    |-> ArrayName(base, PartL),
         samplesR    |-> IF it.channels = 2 /\ it.samples_r.some
                         THEN ArrayName(base, PartR) ELSE << "nullptr" >>,
         frameCount  |-> ArrayName(base, PartL),
         preview     |-> ArrayName(base, PartPreview),
         previewCount |-> ArrayName(base, PartPreview)]

\* main, lines 211-285: after the loop both files are written
Emit ==
    /\ pc = "loop"
    /\ pos > Len(inputs)
    /\ out_dirs' = TRUE
    /\ out_h' = [written |-> TRUE, text |-> "struct Item; items()"]
    /\ out_cpp' = [written |-> TRUE,
                   arrays  |-> AllArrays(items),
                   kItems  |-> [k \in 1..Len(items) |-> ItemRow(items[k])]]
    /\ pc' = "done"
    /\ UNCHANGED << dir, on_path, preview_arg, inputs, pos, seen_ids, items,
                    ir_id, display, decoded, should_delete, sr, ch, samples_l,
                    samples_r, tmp_files, tmp_count, invoked, err, arg, ret >>

Next ==
    \/ ListInputs
    \/ BeginFile
    \/ EnterDecode
    \/ RunFfmpeg
    \/ RunWvunpack
    \/ ToolUnavailable
    \/ ReadDecoded
    \/ BuildItem
    \/ Emit

Spec == Init /\ [][Next]_vars

Terminated == pc \in {"done", "failed"}

----------------------------------------------------------------------------
\* The pure functions applied on their own to bounded inputs

\* Bounds of the inputs
MaxWords == 3

MaxLen == 2

MaxPreviewLen == 5

\* No run: main() is not entered.
RunIdle ==
    /\ dir = << >>
    /\ on_path = {}
    /\ preview_arg = 0
    /\ pc = "idle"
    /\ inputs = <<>>
    /\ pos = 0
    /\ seen_ids = {}
    /\ items = <<>>
    /\ ir_id = <<>>
    /\ display = <<>>
    /\ decoded = NoPath
    /\ should_delete = FALSE
    /\ sr = 0
    /\ ch = 0
    /\ samples_l = <<>>
    /\ samples_r = None
    /\ tmp_files = << >>
    /\ tmp_count = 0
    /\ invoked = <<>>
    /\ err = NoError
    /\ out_dirs = FALSE
    /\ out_h = Absent
    /\ out_cpp = Absent

SeqsUpTo(S, n) == UNION { [1..k -> S] : k \in 0..n }

\* 16-bit sample words, the ends of the range among them
PcmWords == {-32768, -16384, -1, 0, 13, 32767}

\* binary32 sample words: 1.5, -2.0, 0.75, 2^-40
FloatWords == {Canon(3, -1), Canon(-2, 0), Canon(3, -2), Canon(1, -40)}

WavFiles ==
    { [is_file |-> TRUE, opens |-> o, comptype |-> "NONE", ch |-> c,
       sr |-> 44100, sampwidth |-> w, words |-> ws, tail |-> t]
      : o \in BOOLEAN, c \in 1..3, w \in 1..3, t \in 0..1,
        ws \in SeqsUpTo(PcmWords, MaxWords) }
    \cup
    { [is_file |-> TRUE, opens |-> TRUE, comptype |-> "NONE", ch |-> c,
       sr |-> 44100, sampwidth |-> 4, words |-> ws, tail |-> t]
      : c \in 1..2, t \in {0, 3}, ws \in SeqsUpTo(FloatWords, MaxWords) }

ReadWavInit == RunIdle /\ arg \in WavFiles /\ ret = NotCalled

ApplyReadWav ==
    /\ ~ret.called
    /\ ret' = [called |-> TRUE, val |-> _read_wav(arg)]
    /\ UNCHANGED << run_vars, arg >>

SpecReadWav == ReadWavInit /\ [][ApplyReadWav]_vars

\* Samples given to the normaliser: 0, 2^-40 and 2^-39 (either side of the
\* threshold), -13/32768, 32767/32768
NormSamples ==
    { FZero, Canon(1, -40), Canon(1, -39), Canon(-13, -15), Canon(32767, -15) }

NormInputs ==
    { [l |-> a, r |-> b] :
        a \in SeqsUpTo(NormSamples, MaxLen),
        b \in {None} \cup { Some(x) : x \in SeqsUpTo(NormSamples, MaxLen) } }

NormalizeInit == RunIdle /\ arg \in NormInputs /\ ret = NotCalled

ApplyNormalize ==
    /\ ~ret.called
    /\ ret' = [called |-> TRUE, val |-> _normalize_peak(arg.l, arg.r)]
    /\ UNCHANGED << run_vars, arg >>

SpecNormalize == NormalizeInit /\ [][ApplyNormalize]_vars

\* Inputs of the preview: the ramp 1/8, 2/8, ... (every position its own
\* value) and every sequence over two values
Ramp(n) == [k \in 1..n |-> Canon(k, -3)]

PreviewInputs ==
    { [samples |-> x, max_samples |-> m] :
        x \in { Ramp(n) : n \in 0..MaxPreviewLen }
              \cup SeqsUpTo({Canon(1, -1), Canon(-1, -2)}, MaxPreviewLen - 1),
        m \in -1..(MaxPreviewLen + 1) }

PreviewInit == RunIdle /\ arg \in PreviewInputs /\ ret = NotCalled

ApplyBuildPreview ==
    /\ ~ret.called
    /\ ret' = [called |-> TRUE,
               val |-> _build_preview(arg.samples, arg.max_samples)]
    /\ UNCHANGED << run_vars, arg >>

SpecPreview == PreviewInit /\ [][ApplyBuildPreview]_vars

----------------------------------------------------------------------------
\* Properties of the pure functions

\* Exact arithmetic on dyadic numbers, for stating the properties
XMul(a, b) == Canon(a.m * b.m, a.e + b.e)

XLeq(a, b) == ~FLess(b, a)

\* |x - y| <= 3 * 2^-Precision * |y|: x is y up to two roundings
WithinRounding(x, y) ==
    IF x.m = 0 \/ y.m = 0 THEN x = y
    ELSE IF SignInt(x.m) # SignInt(y.m) THEN FALSE
    ELSE IF Top(x) - Top(y) > 1 \/ Top(y) - Top(x) > 1 THEN FALSE
    ELSE LET el   == MinInt(x.e, y.e)
             diff == AbsInt(x.m * Pow2(x.e - el) - y.m * Pow2(y.e - el))
         IN  XLeq(Canon(diff, el + Precision), XMul(FromInt(3), FAbs(y)))

\* The largest magnitude among the samples of the channels given
Magnitudes(l, r) ==
    { FAbs(l[k]) : k \in 1..Len(l) }
    \cup (IF r.some THEN { FAbs(r.val[k]) : k \in 1..Len(r.val) } ELSE {})

Largest(S) == IF S = {} THEN FZero ELSE CHOOSE p \in S : \A q \in S : XLeq(q, p)

InPeak == Largest(Magnitudes(arg.l, arg.r))

OutPeak == Largest(Magnitudes(ret.val.l, ret.val.r))

Audible == ~FLess(InPeak, PeakFloor)

SameShape ==
    /\ Len(ret.val.l) = Len(arg.l)
    /\ ret.val.r.some = arg.r.some
    /\ Len(ret.val.r.val) = Len(arg.r.val)

\* Output sample times the input peak is the input sample times the target,
\* up to the two roundings: every sample was scaled by target / peak.
ScaledUniformly ==
    /\ \A k \in 1..Len(arg.l) :
          WithinRounding(XMul(ret.val.l[k], InPeak), XMul(arg.l[k], Target))
    /\ \A k \in 1..Len(arg.r.val) :
          WithinRounding(XMul(ret.val.r.val[k], InPeak),
                         XMul(arg.r.val[k], Target))

\* C5 as stated: after normalize(left, right?) the largest magnitude of the
\* output equals the target exactly whenever the input peak is >= 1e-12;
\* below that the output is the input; the shape is kept.
C5_PeakEqualsTarget ==
    ret.called =>
        /\ SameShape
        /\ Audible => OutPeak = Target
        /\ ~Audible => ret.val.l = arg.l /\ ret.val.r = arg.r

\* C5, amended: whenever the input peak is >= 1e-12 the largest magnitude of
\* the output is the target up to the rounding of the one division and the
\* one multiplication (a relative error of at most 3 * 2^-Precision), every
\* sample of every channel being scaled by the same factor target / peak;
\* below 1e-12 every output sample equals its input sample; each output
\* channel has the length of its input channel and the right output is
\* absent iff the right input is.
C5_PeakNearTarget ==
    ret.called =>
        /\ SameShape
        /\ Audible => WithinRounding(OutPeak, Target) /\ ScaledUniformly
        /\ ~Audible => ret.val.l = arg.l /\ ret.val.r = arg.r

\* A stereo input whose peak sits in the right channel was scaled, and the
\* scaled peak is not the target bit for bit.
C5_Witness ==
    /\ ret.called
    /\ arg.r.some
    /\ Audible
    /\ InPeak \notin { FAbs(arg.l[k]) : k \in 1..Len(arg.l) }
    /\ OutPeak # Target
    /\ WithinRounding(OutPeak, Target)

\* The k-th sample word of the file as the decoder returned it
DecodedWord(k) ==
    IF arg.ch = 1 THEN ret.val.left[k]
    ELSE IF k % 2 = 1 THEN ret.val.left[(k + 1) \div 2]
    ELSE ret.val.right.val[k \div 2]

DecodedPcm16 == ret.called /\ ret.val.err = "none" /\ arg.sampwidth = 2

\* C8 as stated: a 16-bit sample v decodes to clamp(v / 32767, -1, 1), so
\* 32767 decodes to exactly 1.0.
C8_DividesByMaxPositive ==
    DecodedPcm16 =>
        \A k \in 1..Len(arg.words) :
            IF arg.words[k] < -32767 THEN DecodedWord(k) = FNeg(FOne)
            ELSE XMul(DecodedWord(k), FromInt(32767)) = FromInt(arg.words[k])

\* C8, amended: a 16-bit sample v decodes to v / 32768, which the clamp
\* leaves alone: 32767 decodes to 32767/32768, below 1.0, and -32768 to
\* exactly -1.0.
C8_DividesBy32768 ==
    DecodedPcm16 =>
        \A k \in 1..Len(arg.words) :
            /\ FScale2(DecodedWord(k), 15) = FromInt(arg.words[k])
            /\ arg.words[k] = 32767 => FLess(DecodedWord(k), FOne)
            /\ arg.words[k] = -32768 => DecodedWord(k) = FNeg(FOne)

\* A stereo file holding 32767 in its right channel was decoded.
C8_Witness ==
    /\ DecodedPcm16
    /\ arg.ch = 2
    /\ \E k \in 1..Len(arg.words) :
          /\ k % 2 = 0
          /\ arg.words[k] = 32767
          /\ DecodedWord(k) = Canon(32767, -15)

\* C4: for max_samples >= 2 and an input longer than max_samples the
\* preview has exactly max_samples elements; for a non-empty input no
\* longer than max_samples the preview is the input.
C4_PreviewLength ==
    ret.called =>
        /\ (arg.max_samples >= 2 /\ Len(arg.samples) > arg.max_samples)
              => ret.val.err = "none" /\ Len(ret.val.out) = arg.max_samples
        /\ (arg.samples # <<>> /\ Len(arg.samples) <= arg.max_samples)
              => ret.val.err = "none" /\ ret.val.out = arg.samples

\* An input of five samples cut down to its first, middle and last.
C4_Witness ==
    /\ ret.called
    /\ arg.samples = Ramp(5)
    /\ arg.max_samples = 3
    /\ ret.val.out = << Canon(1, -3), Canon(3, -3), Canon(5, -3) >>

\* C9: _build_preview never fails and has three cases: empty for
\* max_samples <= 0 or an empty input, the input when it is no longer than
\* max_samples, and else (max_samples = 1 included) max_samples values,
\* value i the input at round(i * (length - 1) / (max_samples - 1)).
C9_PreviewTotal ==
    ret.called =>
        /\ ret.val.err = "none"
        /\ IF arg.max_samples <= 0 \/ arg.samples = <<>>
           THEN ret.val.out = <<>>
           ELSE IF Len(arg.samples) <= arg.max_samples
           THEN ret.val.out = arg.samples
           ELSE /\ Len(ret.val.out) = arg.max_samples
                /\ \A k \in 1..arg.max_samples :
                      ret.val.out[k] =
                        arg.samples[1 + MaxInt(0, MinInt(Len(arg.samples) - 1,
                            RoundHalfEven((k - 1) * (Len(arg.samples) - 1),
                                          arg.max_samples - 1)))]

----------------------------------------------------------------------------
\* Properties of the run

OutputsWritten == out_h.written \/ out_cpp.written

IsWv(name) == LowerStr(Suffix(name)) = ExtWv

EntryOfInput(k) == Entries[dir[inputs[k]]]

\* C1: no partial success.  A run whose input set is empty, or in which any
\* file raised, ends failed with neither output file written, however many
\* files were processed before; the files are written only by a run that
\* turned every one of its (at least one) inputs into an item.
C1_NoPartialSuccess ==
    /\ err.kind # "none" => pc = "failed"
    /\ pc = "failed" => ~OutputsWritten /\ err.kind # "none"
    /\ (pc # "start" /\ inputs = <<>>) =>
            pc = "failed" /\ err.kind = "NoInputFiles"
    /\ OutputsWritten =>
            /\ pc = "done"
            /\ out_h.written /\ out_cpp.written
            /\ inputs # <<>>
            /\ Len(items) = Len(inputs)
            /\ Len(out_cpp.kItems) = Len(inputs)

\* A run that failed on its second file after the first became an item.
C1_Witness ==
    /\ pc = "failed"
    /\ pos = 2
    /\ Len(items) = 1
    /\ err.kind \in {"UnsupportedFormat", "ChannelLengthMismatch",
                     "ExternalDecodeFailed", "DecodeToolUnavailable"}
    /\ ~OutputsWritten

\* C2: in every terminal state of the run no temporary file exists.
C2_NoTempFileLeft == Terminated => DOMAIN tmp_files = {}

\* The positions of inputs whose stem an earlier input has
DupPositions ==
    { j \in 1..Len(inputs) :
        \E k \in 1..(j - 1) : Stem(inputs[k]) = Stem(inputs[j]) }

FirstDup == CHOOSE j \in DupPositions : \A k \in DupPositions : j <= k

ItemIdsDistinct ==
    \A j, k \in 1..Len(items) : j # k => items[j].ir_id # items[k].ir_id

\* C3 as stated: whenever two input files have the same stem the run ends
\* with the duplicate-identifier error; the items of a run that reaches the
\* emitter have pairwise distinct identifiers.
C3_DuplicateAlwaysReported ==
    /\ (Terminated /\ DupPositions # {}) =>
            pc = "failed" /\ err.kind = "DuplicateIdentifier"
    /\ pc = "done" => ItemIdsDistinct

\* C3, amended: whenever two input files have the same stem the run never
\* reaches the emitter: it fails, with the duplicate-identifier error when
\* the loop reaches the second of the two files (in sorted order), whatever
\* the files hold, unless a file sorted before that one has already ended
\* the run with another fatal error.  The items of a run that reaches the
\* emitter have pairwise distinct identifiers.
C3_DuplicateStopsRun ==
    /\ DupPositions # {} =>
            /\ pc # "done" /\ ~OutputsWritten
            /\ pos <= FirstDup
            /\ Terminated => pc = "failed"
            /\ (pos = FirstDup /\ pc # "loop") =>
                    pc = "failed" /\ err.kind = "DuplicateIdentifier"
            /\ err.kind = "DuplicateIdentifier" => pos = FirstDup
    /\ ItemIdsDistinct

\* Two files of one stem and different contents: the second was refused.
C3_Witness ==
    /\ pc = "failed"
    /\ err.kind = "DuplicateIdentifier"
    /\ pos = 2
    /\ Stem(inputs[1]) = Stem(inputs[2])
    /\ dir[inputs[1]] # dir[inputs[2]]
    /\ Len(items) = 1

\* A stereo file whose data chunk holds an odd number of sample words
OddStereo(w) ==
    /\ w.opens /\ w.ch = 2 /\ w.sampwidth \in {2, 4} /\ w.tail = 0
    /\ Len(w.words) % 2 = 1

\* C6: every item has one or two channels, a right channel iff it has two,
\* and then of the length of the left one; a stereo file with an odd number
\* of sample words makes no item: the run fails with the
\* channel-length-mismatch error.
C6_ItemChannels ==
    /\ \A k \in 1..Len(items) :
          /\ items[k].channels \in {1, 2}
          /\ items[k].samples_r.some <=> items[k].channels = 2
          /\ items[k].samples_r.some =>
                Len(items[k].samples_r.val) = Len(items[k].samples_l)
          /\ ~OddStereo(EntryOfInput(k))
    /\ (pc = "failed" /\ err.kind \notin {"NoInputFiles", "DuplicateIdentifier"}
            /\ ~IsWv(inputs[pos]) /\ OddStereo(EntryOfInput(pos)))
          => err.kind = "ChannelLengthMismatch"

\* A stereo item was made, and a later stereo file of three words failed.
C6_Witness ==
    /\ pc = "failed"
    /\ err.kind = "ChannelLengthMismatch"
    /\ OddStereo(EntryOfInput(pos))
    /\ Len(samples_l) = 2 /\ Len(samples_r.val) = 1
    /\ \E k \in 1..Len(items) : items[k].channels = 2

\* C7: ffmpeg is run whenever it is located; wvunpack is run only when
\* ffmpeg is not located; the decode fails as tool-unavailable iff neither
\* is located; a non-zero status fails the decode with the tool's stderr
\* and without running the other tool; a .wav runs no tool.
C7_DecoderLookup ==
    /\ \A k \in 1..Len(invoked) :
          /\ IsWv(invoked[k][1])
          /\ invoked[k][2] = "ffmpeg" <=> "ffmpeg" \in on_path
          /\ invoked[k][2] = "wvunpack" =>
                "ffmpeg" \notin on_path /\ "wvunpack" \in on_path
          /\ \A j \in 1..Len(invoked) : j # k => invoked[j][1] # invoked[k][1]
          /\ (invoked[k][3] = "nonzero") =>
                /\ k = Len(invoked)
                /\ pc = "failed"
                /\ err = [kind |-> "ExternalDecodeFailed",
                          path |-> invoked[k][1],
                          detail |-> Stderr(invoked[k][2])]
    /\ err.kind = "ExternalDecodeFailed" =>
          invoked # <<>> /\ invoked[Len(invoked)][3] = "nonzero"
    /\ err.kind = "DecodeToolUnavailable" =>
          /\ on_path \cap Tools = {}
          /\ IsWv(inputs[pos])
          /\ invoked = <<>>
    /\ (on_path \cap Tools = {} /\ pos \in 1..Len(inputs) /\ IsWv(inputs[pos])
           /\ pc \notin {"loop", "decode", "which"}
           /\ err.kind # "DuplicateIdentifier")
          => pc = "failed" /\ err.kind = "DecodeToolUnavailable"
    /\ \A k \in 1..Len(items) :
          IsWv(inputs[k]) => \E j \in 1..Len(invoked) :
                                invoked[j][1] = inputs[k] /\ invoked[j][3] = "ok"

\* wvunpack, the only tool located, returned a non-zero status.
C7_Witness ==
    /\ pc = "failed"
    /\ err.kind = "ExternalDecodeFailed"
    /\ err.detail = Stderr("wvunpack")
    /\ on_path = {"wvunpack"}
    /\ Len(invoked) = 1

\* C10: the names of the static arrays emitted are pairwise distinct.
C10_ArrayNamesDistinct ==
    pc = "done" =>
        \A j, k \in 1..Len(out_cpp.arrays) :
            j # k => out_cpp.arrays[j].name # out_cpp.arrays[k].name

====
